---- MODULE Spec2Model ----
(***************************************************************************)
(* Pitch class sets (pcsets.pcset.PcSet) and the relation engine           *)
(* (pcsets.pcops).  A PcSet instance is modelled by its `definition`       *)
(* attribute, a sequence of integers.  The state is the heap of the        *)
(* objects a client holds, in creation order: every call of the            *)
(* constructor, of a method or of a pcops function returns a new object,   *)
(* which is stored with the call that made it.  Beside the heap there are  *)
(* the pickle file of the catalog (pcsets.catalog) and the SetCatalog      *)
(* under construction.                                                     *)
(***************************************************************************)
EXTENDS Integers, Sequences, FiniteSets, TLC

VARIABLES heap, file, sc

vars == <<heap, file, sc>>

(***************************************************************************)
(* Bounds of the model.                                                    *)
(***************************************************************************)
\* number of objects the client creates
MaxHeap == 3

\* definitions handed to the constructor: chords and a scale as in the test
\* suites (test_pcops.py: 047, 914 written with a negative and out-of-range
\* values, 048, 024579B), the empty set and a set of one element
Definitions ==
    { <<>>,
      <<17>>,
      <<-3, 13, 16>>,
      <<0, 4, 7>>,
      <<0, 4, 8>>,
      <<0, 2, 4, 5, 7, 9, 11>> }

\* sets that a rotation of their sorted elements maps to themselves (the
\* tritone, the augmented triad, the diminished seventh chord, 0167 and the
\* whole-tone scale), with a major and a dominant seventh chord that no
\* rotation does
SymmetricDefinitions ==
    { <<0, 6>>,
      <<0, 4, 8>>,
      <<0, 3, 6, 9>>,
      <<0, 1, 6, 7>>,
      <<0, 2, 4, 6, 8, 10>>,
      <<0, 4, 7>>,
      <<7, 11, 2, 5>> }

\* definitions with duplicates, negative and out-of-range values
RawDefinitions ==
    { <<0, 1, 10, 10, 10, 10>>,
      <<-3, 13, 16, -8, 7>> }

\* definitions of the similarity tests (test_pcops.py: Forte 4-2, 4-13, 4-3,
\* 5-10, 5-Z12, 5-Z36), with the empty set and sets of one, two and three
\* elements
SimilarityDefinitions ==
    { <<>>,
      <<17>>,
      <<0, 1>>,
      <<0, 1, 2>>,
      <<0, 1, 2, 4>>,
      <<0, 1, 3, 6>>,
      <<0, 1, 3, 4>>,
      <<0, 1, 3, 4, 6>>,
      <<0, 1, 3, 5, 6>>,
      <<0, 1, 2, 4, 7>> }

\* definitions of the tests of complements (test_pcops.py: 047, 024579B,
\* the black keys inverted and transposed by 3, the empty set and the
\* chromatic set range(12))
ComplementDefinitions ==
    { <<>>,
      <<0, 4, 7>>,
      <<2, 0, 9, 7, 5>>,
      <<0, 2, 4, 5, 7, 9, 11>>,
      <<0, 1, 2, 3, 4, 5, 6, 7, 8, 9, 10, 11>> }

\* the calls of the constructor of SetCatalog, as (rebuild, store, failsafe):
\* SetCatalog(), SetCatalog(rebuild=True, store=False) of showcatalog,
\* SetCatalog(rebuild=True) and SetCatalog(failsafe=True)
CatalogArgs ==
    { <<FALSE, TRUE, FALSE>>,
      <<TRUE, FALSE, FALSE>>,
      <<TRUE, TRUE, FALSE>>,
      <<FALSE, TRUE, TRUE>> }

\* values of the argument polarity of OpSet: the two modes and two mistakes
Polarities == {"normal", "reverse", "forward", "Normal"}

\* arguments of transpose / T / TnI: in range, negative and out of range
TransposeArgs == {-13, 7, 12}

\* arguments of shift
ShiftArgs == {-1, 2}

\* the places of shift: down, none, up by one, by the length of a triad and
\* of a scale, and beyond the length in both directions
ShiftPlaces == {-8, -1, 0, 1, 3, 7, 15}

\* arguments (x, y) of Ixy
IxyArgs == { <<11, 7>> }

(***************************************************************************)
(* pcset.py: utility functions                                             *)
(***************************************************************************)
\* n = int(x); return n % 12
moderate(x) == x % 12

RECURSIVE binaryvalue(_)
binaryvalue(i) ==
    IF i = <<>> THEN 0 ELSE 2 ^ Head(i) + binaryvalue(Tail(i))

\* `note in sequence`
Contains(s, note) == \E k \in DOMAIN s : s[k] = note

\* the set of the elements, set(a)
Elements(s) == { s[k] : k \in DOMAIN s }

(***************************************************************************)
(* PcSet.__init__                                                          *)
(***************************************************************************)
\* the constructor without the test `note not in self.definition`
RemoveDuplicates_keep(definition, redefinition) == definition \o redefinition

RECURSIVE RemoveDuplicates(_, _)
RemoveDuplicates(definition, redefinition) ==
    IF redefinition = <<>> THEN definition
    ELSE RemoveDuplicates(
            IF Contains(definition, Head(redefinition))
            THEN definition
            ELSE Append(definition, Head(redefinition)),
            Tail(redefinition))

PcSet(definition) ==
    RemoveDuplicates(<<>>,
        [k \in DOMAIN definition |-> moderate(definition[k])])

(***************************************************************************)
(* fundamental methods                                                     *)
(***************************************************************************)
\* inversion around 11 instead of 12
invert_11(self) == PcSet([k \in DOMAIN self |-> (11 - self[k]) % 12])

invert(self) == PcSet([k \in DOMAIN self |-> (12 - self[k]) % 12])

\* transposition downwards
transpose_down(self, n) == PcSet([k \in DOMAIN self |-> (self[k] - n) % 12])

transpose(self, n) == PcSet([k \in DOMAIN self |-> (self[k] + n) % 12])

(***************************************************************************)
(* set operations                                                          *)
(***************************************************************************)
\* the loop over range(1, 12) instead of range(12)
complement_from1(self) ==
    PcSet(SelectSeq([k \in 1..11 |-> k],
                    LAMBDA note : ~Contains(self, note)))

complement(self) ==
    PcSet(SelectSeq([k \in 1..12 |-> k - 1],
                    LAMBDA note : ~Contains(self, note)))

reverse(self) == PcSet([k \in DOMAIN self |-> self[Len(self) + 1 - k]])

\* sorted(): ascending order
RECURSIVE Insert(_, _)
Insert(s, x) ==
    IF s = <<>> THEN <<x>>
    ELSE IF x < Head(s) THEN <<x>> \o s
    ELSE <<Head(s)>> \o Insert(Tail(s), x)

RECURSIVE sorted(_)
sorted(s) == IF s = <<>> THEN <<>> ELSE Insert(sorted(Tail(s)), Head(s))

sort(self) == PcSet(sorted(self))

\* copy.insert(0, copy.pop()), `uptimes` times
RECURSIVE InsertPop(_, _)
InsertPop(copy, uptimes) ==
    IF uptimes = 0 THEN copy
    ELSE InsertPop(<<copy[Len(copy)]>> \o SubSeq(copy, 1, Len(copy) - 1),
                   uptimes - 1)

\* copy.append(copy.pop(0)) in the place of copy.insert(0, copy.pop())
shift_down(self, n) ==
    LET size == Len(self)
    IN  IF size > 1
        THEN PcSet(InsertPop(self, (-n) % size))
        ELSE PcSet(self)

shift(self, n) ==
    LET size == Len(self)
    IN  IF size > 1
        THEN PcSet(InsertPop(self, n % size))
        ELSE PcSet(self)

zero(self) ==
    IF self = <<>> THEN PcSet(self) ELSE transpose(self, -self[1])

\* the loop of normal(): a challenger replaces the best arrangement only
\* when its binary value is strictly lower
\* normal() without the comparison of the challengers
BestNormal_skip(bestnormal, established, rotations) == bestnormal

\* the loop with the test `challenger <= established`
RECURSIVE BestNormal_ties(_, _, _)
BestNormal_ties(bestnormal, established, rotations) ==
    IF rotations = <<>> THEN bestnormal
    ELSE LET arrangement == Head(rotations)
             challenger == binaryvalue(zero(arrangement))
         IN  IF challenger <= established
             THEN BestNormal_ties(arrangement, challenger, Tail(rotations))
             ELSE BestNormal_ties(bestnormal, established, Tail(rotations))

RECURSIVE BestNormal(_, _, _)
BestNormal(bestnormal, established, rotations) ==
    IF rotations = <<>> THEN bestnormal
    ELSE LET arrangement == Head(rotations)
             challenger == binaryvalue(zero(arrangement))
         IN  IF challenger < established
             THEN BestNormal(arrangement, challenger, Tail(rotations))
             ELSE BestNormal(bestnormal, established, Tail(rotations))

normal(self) ==
    LET size == Len(self)
        original == sort(self)
        rotations == [k \in 1..size |-> shift(original, k - 1)]
    IN  IF size < 2 THEN PcSet(self)
        ELSE \* bestnormal = rotations.pop(): the last rotation starts
             BestNormal(rotations[size],
                        binaryvalue(zero(rotations[size])),
                        SubSeq(rotations, 1, size - 1))

\* reduced() without the transposition to zero
reduced_normal(self) == normal(self)

reduced(self) == zero(normal(self))

\* prime() without the comparison with the inversion
prime_original(self) == zero(normal(self))

\* prime() that always answers the reduced form of the inversion
prime_inverted(self) == zero(normal(invert(self)))

prime(self) ==
    LET original == zero(normal(self))
        inverted == zero(normal(invert(self)))
    IN  IF binaryvalue(original) < binaryvalue(inverted)
        THEN original
        ELSE inverted

(***************************************************************************)
(* shorthand methods                                                       *)
(***************************************************************************)
I(self) == invert(self)

T(self, n) == transpose(self, n)

TnI(self, n) == transpose(invert(self), n)

Ixy(self, x, y) == transpose(invert(self), x + y)

(***************************************************************************)
(* pcops.py: equality                                                      *)
(***************************************************************************)
exact_equality(a, b) == a = b

set_equality(a, b) == Elements(a) = Elements(b)

\* same_prime() on the reduced forms
same_prime_reduced(a, b) == exact_equality(reduced(a), reduced(b))

same_prime(a, b) == exact_equality(prime(a), prime(b))

(***************************************************************************)
(* pcset.py with float arguments.  A float with one decimal place is       *)
(* modelled by its number of tenths: 36 is 3.6 and -36 is -3.6.            *)
(***************************************************************************)
\* the floats a client passes to transpose, in tenths
FloatArgs == {36, -36, 5, -5, 30, -125}

\* int(x): the fraction is dropped, toward zero
int(x) == IF x >= 0 THEN x \div 10 ELSE -((-x) \div 10)

\* moderate(x) of a float: int(x) % 12
moderate_float(x) == int(x) % 12

\* PcSet(pcs) of a list of floats
PcSet_float(pcs) ==
    RemoveDuplicates(<<>>, [k \in DOMAIN pcs |-> moderate_float(pcs[k])])

\* transpose(n) of a float n: (note + n) % 12 is a float of [0, 12), and the
\* constructor takes the list of these floats
transpose_float(self, n) ==
    PcSet_float([k \in DOMAIN self |-> (10 * self[k] + n) % 120])

(***************************************************************************)
(* pcset.py: interval vector and common tone vector.  The entry of index n *)
(* of a Python list is the entry n + 1 of the sequence.                    *)
(***************************************************************************)
\* list.count(value)
count(list, value) == Cardinality({ p \in DOMAIN list : list[p] = value })

\* the interval from othernote up to note, not folded at the tritone
intervalclass_unfolded(note, othernote) == (note - othernote) % 12

\* the interval class of the pair popped from the working copy
intervalclass(note, othernote) ==
    LET up == (note - othernote) % 12
    IN  IF up > 6 THEN (12 - up) % 12 ELSE up

\* Each note popped from the end of the sorted copy is paired with the notes
\* still in the copy: the pairs of positions q < p.  ivec[intervalclass - 1]
\* is the last entry of the list when intervalclass is 0.
ivec(self) ==
    LET workingcopy == sort(self)
    IN  [c \in 1..6 |->
            Cardinality(
                { pair \in (DOMAIN workingcopy) \X (DOMAIN workingcopy) :
                    /\ pair[2] < pair[1]
                    /\ LET ic == intervalclass(workingcopy[pair[1]],
                                               workingcopy[pair[2]])
                       IN  c = (IF ic = 0 THEN 6 ELSE ic) })]

\* the table of the differences x - y
rawtable_differences(self) ==
    [p \in 1..(Len(self) * Len(self)) |->
        (self[((p - 1) \div Len(self)) + 1]
            - self[((p - 1) % Len(self)) + 1]) % 12]

\* the sums x + y of all ordered pairs, x in the outer loop
rawtable(self) ==
    [p \in 1..(Len(self) * Len(self)) |->
        (self[((p - 1) \div Len(self)) + 1]
            + self[((p - 1) % Len(self)) + 1]) % 12]

\* every value of the table adds its number of occurrences to its entry
cvec(self) ==
    [v \in 1..12 |->
        IF (v - 1) \in Elements(rawtable(self))
        THEN count(rawtable(self), v - 1)
        ELSE 0]

(***************************************************************************)
(* pcops.py: OpSet, the search over Tn and TnI, n in range(12)             *)
(***************************************************************************)
\* the test with a and b exchanged
subset_of_swapped(a, b) == Elements(a) \subseteq Elements(b)

\* set(b).issubset(set(a))
subset_of(a, b) == Elements(b) \subseteq Elements(a)

\* relation(a, b): the function handed to OpSet, by its name
Relation(relation, a, b) ==
    CASE relation = "set_equality" -> set_equality(a, b)
      [] relation = "subset_of" -> subset_of(a, b)

\* the search without the branch `mode == 'TnI'`
Matches_TnOnly(relation, ao, bo, polarity, mode) ==
    SelectSeq([k \in 1..12 |-> k - 1],
              LAMBDA n :
                  IF polarity = "normal"
                  THEN Relation(relation, T(ao, n), bo)
                  ELSE Relation(relation, ao, T(bo, n)))

\* the search with `for n in range(11)`
Matches_range11(relation, ao, bo, polarity, mode) ==
    SelectSeq([k \in 1..11 |-> k - 1],
              LAMBDA n :
                  IF polarity = "normal"
                  THEN Relation(relation,
                                IF mode = "TnI" THEN TnI(ao, n) ELSE T(ao, n),
                                bo)
                  ELSE Relation(relation,
                                ao,
                                IF mode = "TnI" THEN TnI(bo, n) ELSE T(bo, n)))

\* the values of n, in the order of the loop, for which the relation holds
Matches(relation, ao, bo, polarity, mode) ==
    SelectSeq([k \in 1..12 |-> k - 1],
              LAMBDA n :
                  IF polarity = "normal"
                  THEN Relation(relation,
                                IF mode = "TnI" THEN TnI(ao, n) ELSE T(ao, n),
                                bo)
                  ELSE Relation(relation,
                                ao,
                                IF mode = "TnI" THEN TnI(bo, n) ELSE T(bo, n)))

\* `for mode in ['Tn', 'TnI']` and `for n in range(12)`
Modes == <<"Tn", "TnI">>

Range12 == [k \in 1..12 |-> k - 1]

\* `else:` in the place of `elif polarity == 'reverse':`, and no OpSetError
OpSet_else_reverse(relation, ao, bo, polarity) ==
    [ Tn    |-> Matches(relation, ao, bo, polarity, "Tn"),
      TnI   |-> Matches(relation, ao, bo, polarity, "TnI"),
      error |-> "none",
      evaluations |-> Len(Modes) * Len(Range12) ]

\* A polarity that is neither 'normal' nor 'reverse' raises OpSetError in the
\* first pass of the loops, before `relation(a, b)`; otherwise every pass
\* evaluates the relation once.  evaluations: the calls of the relation.
OpSet(relation, ao, bo, polarity) ==
    IF polarity \notin {"normal", "reverse"}
    THEN [ Tn |-> <<>>, TnI |-> <<>>, error |-> "OpSetError",
           evaluations |-> 0 ]
    ELSE [ Tn    |-> Matches(relation, ao, bo, polarity, "Tn"),
           TnI   |-> Matches(relation, ao, bo, polarity, "TnI"),
           error |-> "none",
           evaluations |-> Len(Modes) * Len(Range12) ]

NullOpSet ==
    [ Tn |-> <<>>, TnI |-> <<>>, error |-> "none", evaluations |-> 0 ]

\* the property `any`
getAny(result) == ~(result.Tn = <<>> /\ result.TnI = <<>>)

(***************************************************************************)
(* pcops.py: transformation relationships, set operations                  *)
(***************************************************************************)
\* `assert result.any` raises AssertionError when no branch has a match
op_path(a, b) ==
    IF ~same_prime(a, b) THEN NullOpSet
    ELSE LET result == OpSet("set_equality", a, b, "normal")
         IN  IF getAny(result) THEN result
             ELSE [result EXCEPT !.error = "AssertionError"]

\* the entries of the cvec one below the cardinality
symmetry_below(a) == count(cvec(a), Len(a) - 1)

symmetry(a) == count(cvec(a), Len(a))

union(a, b) == PcSet(a \o b)

\* The orders in which the members of a Python set may be iterated.  The
\* order is a matter of the hash table of the interpreter: the model takes
\* the ascending order and its rotations.
SetOrders(S) ==
    LET ascending ==
            SelectSeq([k \in 1..12 |-> k - 1], LAMBDA note : note \in S)
    IN  { InsertPop(ascending, r) : r \in 0..Cardinality(S) }

\* PcSet(set(a).intersection(set(b))): the possible results, one for each
\* order of iteration of the intersection
common(a, b) ==
    { PcSet(order) : order \in SetOrders(Elements(a) \cap Elements(b)) }

(***************************************************************************)
(* pcops.py: set relationships                                             *)
(***************************************************************************)
is_complement(a, b) == Len(union(a, b)) = 12

\* without a.complement()
is_prime_complement_of_a(a, b) == same_prime(a, b)

is_prime_complement(a, b) == same_prime(complement(a), b)

(***************************************************************************)
(* pcops.py: subset relations                                              *)
(***************************************************************************)
harmonize(a, b) ==
    IF Len(a) < Len(b) THEN NullOpSet
    ELSE OpSet("subset_of", a, b, "normal")

\* the search of fit_in without polarity='reverse'
fit_in_normal(a, b) ==
    IF Len(a) < Len(b) THEN NullOpSet
    ELSE OpSet("subset_of", a, b, "normal")

fit_in(a, b) ==
    IF Len(a) < Len(b) THEN NullOpSet
    ELSE OpSet("subset_of", a, b, "reverse")

prime_subset_of(a, b) == getAny(fit_in(a, b))

(***************************************************************************)
(* pcops.py: similarity relations                                          *)
(***************************************************************************)
\* any() instead of all()
R0_any(a, b) ==
    IF Len(a) # Len(b) THEN FALSE
    ELSE \E p \in 1..6 : ivec(a)[p] # ivec(b)[p]

R0(a, b) ==
    IF Len(a) # Len(b) THEN FALSE
    ELSE \A p \in 1..6 : ivec(a)[p] # ivec(b)[p]

\* the pairs (x, y) of zip(a.ivec(), b.ivec()) with x != y, in order
misfits(a, b) ==
    SelectSeq([p \in 1..6 |-> <<ivec(a)[p], ivec(b)[p]>>],
              LAMBDA pair : pair[1] # pair[2])

R1_or_R2(a, b) ==
    IF Len(a) # Len(b)
    THEN [difference2 |-> FALSE, interchange |-> FALSE]
    ELSE [difference2 |-> Len(misfits(a, b)) = 2,
          interchange |->
              /\ Len(misfits(a, b)) = 2
              /\ misfits(a, b)[1][1] = misfits(a, b)[2][2]
              /\ misfits(a, b)[1][2] = misfits(a, b)[2][1]]

R1(a, b) == R1_or_R2(a, b).interchange

\* without `and not results['interchange']`
R2_difference2(a, b) == R1_or_R2(a, b).difference2

R2(a, b) == R1_or_R2(a, b).difference2 /\ ~R1_or_R2(a, b).interchange

Zpair(a, b) == ivec(a) = ivec(b)

(***************************************************************************)
(* pcset.py: the constructor on strings, lists with characters and         *)
(* non-iterables.  A member of a definition is a token: an integer or a    *)
(* string of one character.                                                *)
(***************************************************************************)
Num(n) == [type |-> "int", ch |-> "", n |-> n]

Chr(ch) == [type |-> "str", ch |-> ch, n |-> 0]

String(chars) ==
    [type |-> "str", items |-> [k \in DOMAIN chars |-> Chr(chars[k])]]

\* The characters int() converts: the decimal digits of Unicode, which are
\* the ASCII digits and the digits of other scripts, here U+0663
\* (ARABIC-INDIC DIGIT THREE) and U+FF15 (FULLWIDTH DIGIT FIVE).
DecimalDigits ==
    ("0" :> 0) @@ ("1" :> 1) @@ ("2" :> 2) @@ ("3" :> 3) @@ ("4" :> 4)
    @@ ("5" :> 5) @@ ("6" :> 6) @@ ("7" :> 7) @@ ("8" :> 8) @@ ("9" :> 9)
    @@ ("U+0663" :> 3) @@ ("U+FF15" :> 5)

\* the definitions of the tests of the constructor (test_pcset.py: '0146',
\* '9B12468', '', '01E', '047 9', [0, 1, 'a'], 25), a lowercase letter and
\* digits of other scripts
TokenDefinitions ==
    { String(<<"0", "1", "4", "6">>),
      String(<<"9", "B", "1", "2", "4", "6", "8">>),
      String(<<>>),
      String(<<"0", "1", "E">>),
      String(<<"0", "4", "7", " ", "9">>),
      String(<<"0", "a">>),
      String(<<"U+0663">>),
      String(<<"0", "U+FF15">>),
      [type |-> "list", items |-> <<Num(0), Num(1), Chr("a")>>],
      [type |-> "list", items |-> <<Num(13), Chr("A"), Num(-2)>>],
      [type |-> "int", items |-> <<Num(25)>>] }

\* moderate(x) of a token: int(x), on ValueError 'A' and 'B', otherwise
\* IllegalCharacter
moderate_token(x) ==
    IF x.type = "int" THEN [error |-> "none", n |-> x.n % 12]
    ELSE IF x.ch \in DOMAIN DecimalDigits
    THEN [error |-> "none", n |-> DecimalDigits[x.ch] % 12]
    ELSE IF x.ch = "A" THEN [error |-> "none", n |-> 10 % 12]
    ELSE IF x.ch = "B" THEN [error |-> "none", n |-> 11 % 12]
    ELSE [error |-> "IllegalCharacter", n |-> 0]

\* PcSet(definition): list(definition) raises TypeError for a non-iterable,
\* the first illegal token raises IllegalCharacter; both are DefinitionErrors
\* and no instance is made
PcSet_tokens(definition) ==
    IF definition.type \notin {"str", "list"}
    THEN [error |-> "NonIterableDef", definition |-> <<>>]
    ELSE IF \E k \in DOMAIN definition.items :
                moderate_token(definition.items[k]).error # "none"
    THEN [error |-> "IllegalCharacter", definition |-> <<>>]
    ELSE [error |-> "none",
          definition |->
              RemoveDuplicates(<<>>,
                  [k \in DOMAIN definition.items |->
                      moderate_token(definition.items[k]).n])]

(***************************************************************************)
(* catalog.py: SetCatalog.  `file` is catalog.pkl, `sc` is the instance    *)
(* under construction: the arguments of the call, the position in          *)
(* __init__ (pc), the number n of the set the loop of _rebuild takes next  *)
(* and self.catalog, page k of the catalog being catalog[k + 1].           *)
(***************************************************************************)
\* the first n that the loop `for n in xrange(4096)` does not take
AllSets == 4096

\* the set of number n: the bits of n that are set, in ascending order
all_possible_pcsets(n) ==
    PcSet(SelectSeq(Range12, LAMBDA bit : (n \div 2^bit) % 2 = 1))

any_match(p, page) == \E k \in DOMAIN page : exact_equality(p, page[k])

\* self.catalog = [[] for page in range(13)]
EmptyCatalog == [page \in 1..13 |-> <<>>]

\* the pass without the test `if not any_match(p, page)`
Catalogued_all(catalog, s) ==
    [catalog EXCEPT ![Len(prime(s)) + 1] = Append(@, prime(s))]

\* one pass of the loop of _rebuild on the set s
Catalogued(catalog, s) ==
    LET p == prime(s)
    IN  IF any_match(p, catalog[Len(p) + 1])
        THEN catalog
        ELSE [catalog EXCEPT ![Len(p) + 1] = Append(@, p)]

RECURSIVE Concat(_)
Concat(seqs) ==
    IF seqs = <<>> THEN <<>> ELSE Head(seqs) \o Concat(Tail(seqs))

\* pickle.dump: the catalog as one sequence of numbers, every list and every
\* PcSet written as its length and its members
dump(catalog) ==
    <<Len(catalog)>> \o
    Concat([k \in DOMAIN catalog |->
              <<Len(catalog[k])>> \o
              Concat([e \in DOMAIN catalog[k] |->
                        <<Len(catalog[k][e])>> \o catalog[k][e]])])

\* pickle.load of `count` instances that begin at position pos
RECURSIVE load_entries(_, _, _)
load_entries(data, pos, left) ==
    IF left = 0 THEN [items |-> <<>>, pos |-> pos]
    ELSE LET entry == SubSeq(data, pos + 1, pos + data[pos])
             rest == load_entries(data, pos + 1 + data[pos], left - 1)
         IN  [items |-> <<entry>> \o rest.items, pos |-> rest.pos]

RECURSIVE load_pages(_, _, _)
load_pages(data, pos, left) ==
    IF left = 0 THEN [items |-> <<>>, pos |-> pos]
    ELSE LET page == load_entries(data, pos + 1, data[pos])
             rest == load_pages(data, page.pos, left - 1)
         IN  [items |-> <<page.items>> \o rest.items, pos |-> rest.pos]

load(data) == load_pages(data, 2, data[1]).items

\* no catalog.pkl
NoFile == [exists |-> FALSE, data |-> <<>>]

\* no SetCatalog constructed yet
NoSetCatalog ==
    [ pc |-> "none", rebuild |-> FALSE, store |-> FALSE, failsafe |-> FALSE,
      loaded |-> FALSE, n |-> 0, catalog |-> <<>> ]

(***************************************************************************)
(* tonerow.py: ToneRow, a PcSet of all 12 pitch classes.  A call of the    *)
(* constructor returns the error it raises, or "none", and the definition. *)
(***************************************************************************)
\* rows of test_tonerow.py, the row of the documentation of contour and a
\* definition that is not a row
RowDefinitions ==
    { <<9, 1, 11, 10, 4, 2, 3, 8, 5, 7, 6, 0>>,
      <<1, 2, 6, 8, 10, 9, 4, 11, 7, 0, 5, 3>>,
      <<2, 7, 8, 5, 11, 6, 3, 10, 4, 9, 0, 1>>,
      <<0, 4, 7>> }

ToneRow(definition) ==
    LET self == PcSet(definition)
    IN  [ error |-> IF Len(self) < 12 THEN "IncompleteRowError" ELSE "none",
          definition |-> self ]

\* the transposition by n, whatever the first element
correct_transposition_by_n(pcs, n) == T(pcs, moderate(n))

correct_transposition(pcs, n) == T(pcs, moderate(n) - pcs[1])

P(self, n) == ToneRow(correct_transposition(self, n))

R(self, n) == ToneRow(correct_transposition(reverse(self), n))

\* ToneRow.I(n), which overrides PcSet.I
ToneRow_I(self, n) == ToneRow(correct_transposition(invert(self), n))

RI(self, n) == ToneRow(correct_transposition(reverse(invert(self)), n))

\* `for f in methods`, methods = [a.P, a.I, a.R, a.RI]
equivalent(a, b) ==
    LET standard == P(b, 0).definition
    IN  \/ P(a, 0).definition = standard
        \/ ToneRow_I(a, 0).definition = standard
        \/ R(a, 0).definition = standard
        \/ RI(a, 0).definition = standard

(***************************************************************************)
(* The client: it constructs instances, calls methods on the instances it  *)
(* holds and calls the functions of pcops on them.  An object of the heap  *)
(* is the value a call returned, with the call: its name (op), the heap    *)
(* positions of its operands (a, b), its integer arguments (n, m) and,     *)
(* for the constructor, its input.                                         *)
(***************************************************************************)
NoObject ==
    [ class |-> "none", op |-> "none", a |-> 0, b |-> 0, n |-> 0, m |-> 0,
      input |-> <<>>, definition |-> <<>>, flag |-> FALSE,
      Tn |-> <<>>, TnI |-> <<>>, error |-> "none",
      vector |-> <<>>, value |-> 0, relation |-> "none",
      polarity |-> "none" ]

\* the positions of the PcSet instances
Instances == { i \in DOMAIN heap : heap[i].class = "PcSet" }

\* the result written over the last object
Alloc_overwrite(h, object) ==
    IF h = <<>> THEN <<object>> ELSE [h EXCEPT ![Len(h)] = object]

\* a new object never takes the place of an existing one
Alloc(h, object) == Append(h, object)

\* the client has room for the object a call returns
Room == Len(heap) < MaxHeap

\* the object joins the heap; the calls of pcset and pcops touch no file
Stores(object) ==
    /\ heap' = Alloc(heap, object)
    /\ UNCHANGED <<file, sc>>

\* a call that returns a new PcSet
Returns(op, a, b, n, m, definition) ==
    /\ Room
    /\ Stores([NoObject EXCEPT !.class = "PcSet", !.op = op,
                                      !.a = a, !.b = b, !.n = n, !.m = m,
                                      !.definition = definition])

Init ==
    /\ heap = <<>>
    /\ file = NoFile
    /\ sc = NoSetCatalog

\* PcSet(input)
New(input) ==
    /\ Room
    /\ Stores([NoObject EXCEPT !.class = "PcSet", !.op = "PcSet",
                                      !.input = input,
                                      !.definition = PcSet(input)])

Construct == \E input \in Definitions : New(input)

ConstructRaw == \E input \in RawDefinitions : New(input)

Invert ==
    \E i \in Instances :
        Returns("invert", i, 0, 0, 0, invert(heap[i].definition))

Transpose ==
    \E i \in Instances, n \in TransposeArgs :
        Returns("transpose", i, 0, n, 0, transpose(heap[i].definition, n))

Complement ==
    \E i \in Instances :
        Returns("complement", i, 0, 0, 0, complement(heap[i].definition))

Reverse ==
    \E i \in Instances :
        Returns("reverse", i, 0, 0, 0, reverse(heap[i].definition))

Sort ==
    \E i \in Instances :
        Returns("sort", i, 0, 0, 0, sort(heap[i].definition))

Shift ==
    \E i \in Instances, n \in ShiftArgs :
        Returns("shift", i, 0, n, 0, shift(heap[i].definition, n))

Zero ==
    \E i \in Instances :
        Returns("zero", i, 0, 0, 0, zero(heap[i].definition))

Normal ==
    \E i \in Instances :
        Returns("normal", i, 0, 0, 0, normal(heap[i].definition))

Reduced ==
    \E i \in Instances :
        Returns("reduced", i, 0, 0, 0, reduced(heap[i].definition))

Prime ==
    \E i \in Instances :
        Returns("prime", i, 0, 0, 0, prime(heap[i].definition))

CallI ==
    \E i \in Instances : Returns("I", i, 0, 0, 0, I(heap[i].definition))

CallT ==
    \E i \in Instances, n \in TransposeArgs :
        Returns("T", i, 0, n, 0, T(heap[i].definition, n))

CallTnI ==
    \E i \in Instances, n \in TransposeArgs :
        Returns("TnI", i, 0, n, 0, TnI(heap[i].definition, n))

CallIxy ==
    \E i \in Instances, xy \in IxyArgs :
        Returns("Ixy", i, 0, xy[1], xy[2],
                Ixy(heap[i].definition, xy[1], xy[2]))

Union ==
    \E i \in Instances, j \in Instances :
        Returns("union", i, j, 0, 0,
                union(heap[i].definition, heap[j].definition))

Common ==
    /\ Room
    /\ \E i \in Instances, j \in Instances :
           \E definition \in common(heap[i].definition, heap[j].definition) :
               Returns("common", i, j, 0, 0, definition)

SamePrime ==
    \E i \in Instances, j \in Instances :
        /\ Room
        /\ Stores([NoObject EXCEPT
                             !.class = "bool", !.op = "same_prime",
                             !.a = i, !.b = j,
                             !.flag = same_prime(heap[i].definition,
                                                 heap[j].definition)])

OpPath ==
    \E i \in Instances, j \in Instances :
        LET result == op_path(heap[i].definition, heap[j].definition)
        IN  /\ Room
            /\ Stores([NoObject EXCEPT
                                 !.class = "OpSet", !.op = "op_path",
                                 !.a = i, !.b = j,
                                 !.Tn = result.Tn, !.TnI = result.TnI,
                                 !.flag = getAny(result),
                                 !.error = result.error])

Next ==
    \/ ConstructRaw
    \/ Invert
    \/ Transpose
    \/ Complement
    \/ Reverse
    \/ Sort
    \/ Shift
    \/ Zero
    \/ Normal
    \/ Reduced
    \/ Prime
    \/ CallI
    \/ CallT
    \/ CallTnI
    \/ CallIxy
    \/ Union
    \/ Common

Spec == Init /\ [][Next]_vars

\* the client of the canonical forms and of the search for operator paths
NextForms ==
    \/ Construct
    \/ Invert
    \/ Transpose
    \/ Normal
    \/ Reduced
    \/ Prime
    \/ SamePrime
    \/ OpPath

SpecForms == Init /\ [][NextForms]_vars

TransposeFloat ==
    \E i \in Instances, n \in FloatArgs :
        Returns("transpose_float", i, 0, n, 0,
                transpose_float(heap[i].definition, n))

\* the client that transposes by floats
NextFloat ==
    \/ Construct
    \/ TransposeFloat

SpecFloat == Init /\ [][NextFloat]_vars

\* a call of a pcops function that returns an OpSet
ReturnsOpSet(op, i, j, result) ==
    /\ Room
    /\ Stores([NoObject EXCEPT
                         !.class = "OpSet", !.op = op, !.a = i, !.b = j,
                         !.Tn = result.Tn, !.TnI = result.TnI,
                         !.flag = getAny(result), !.error = result.error])

\* a call of a pcops function that returns a boolean
ReturnsBool(op, i, j, flag) ==
    /\ Room
    /\ Stores([NoObject EXCEPT
                         !.class = "bool", !.op = op, !.a = i, !.b = j,
                         !.flag = flag])

Harmonize ==
    \E i \in Instances, j \in Instances :
        ReturnsOpSet("harmonize", i, j,
                     harmonize(heap[i].definition, heap[j].definition))

FitIn ==
    \E i \in Instances, j \in Instances :
        ReturnsOpSet("fit_in", i, j,
                     fit_in(heap[i].definition, heap[j].definition))

PrimeSubsetOf ==
    \E i \in Instances, j \in Instances :
        ReturnsBool("prime_subset_of", i, j,
                    prime_subset_of(heap[i].definition, heap[j].definition))

\* the client of the subset relations
NextSubset ==
    \/ Construct
    \/ Harmonize
    \/ FitIn
    \/ PrimeSubsetOf

SpecSubset == Init /\ [][NextSubset]_vars

Ivec ==
    \E i \in Instances :
        /\ Room
        /\ Stores([NoObject EXCEPT
                             !.class = "list", !.op = "ivec", !.a = i,
                             !.vector = ivec(heap[i].definition)])

Cvec ==
    \E i \in Instances :
        /\ Room
        /\ Stores([NoObject EXCEPT
                             !.class = "list", !.op = "cvec", !.a = i,
                             !.vector = cvec(heap[i].definition)])

Symmetry ==
    \E i \in Instances :
        /\ Room
        /\ Stores([NoObject EXCEPT
                             !.class = "int", !.op = "symmetry", !.a = i,
                             !.value = symmetry(heap[i].definition)])

\* the client of the vectors
NextVectors ==
    \/ Construct
    \/ Reverse
    \/ Transpose
    \/ Ivec
    \/ Cvec
    \/ Symmetry

SpecVectors == Init /\ [][NextVectors]_vars

ConstructSimilar == \E input \in SimilarityDefinitions : New(input)

CallR0 ==
    \E i \in Instances, j \in Instances :
        ReturnsBool("R0", i, j, R0(heap[i].definition, heap[j].definition))

CallR1 ==
    \E i \in Instances, j \in Instances :
        ReturnsBool("R1", i, j, R1(heap[i].definition, heap[j].definition))

CallR2 ==
    \E i \in Instances, j \in Instances :
        ReturnsBool("R2", i, j, R2(heap[i].definition, heap[j].definition))

CallZpair ==
    \E i \in Instances, j \in Instances :
        ReturnsBool("Zpair", i, j,
                    Zpair(heap[i].definition, heap[j].definition))

\* the client of the similarity relations
NextSimilarity ==
    \/ ConstructSimilar
    \/ CallR0
    \/ CallR1
    \/ CallR2
    \/ CallZpair

SpecSimilarity == Init /\ [][NextSimilarity]_vars

ConstructComplementary == \E input \in ComplementDefinitions : New(input)

IsComplement ==
    \E i \in Instances, j \in Instances :
        ReturnsBool("is_complement", i, j,
                    is_complement(heap[i].definition, heap[j].definition))

IsPrimeComplement ==
    \E i \in Instances, j \in Instances :
        ReturnsBool("is_prime_complement", i, j,
                    is_prime_complement(heap[i].definition,
                                        heap[j].definition))

\* the client of the complements
NextComplement ==
    \/ ConstructComplementary
    \/ Complement
    \/ IsComplement
    \/ IsPrimeComplement

SpecComplement == Init /\ [][NextComplement]_vars

\* PcSet(input) of a string, a list with characters or a non-iterable: an
\* instance, or the DefinitionError raised
ConstructTokens ==
    \E input \in TokenDefinitions :
        LET made == PcSet_tokens(input)
        IN  /\ Room
            /\ Stores([NoObject EXCEPT
                                 !.class = IF made.error = "none"
                                           THEN "PcSet"
                                           ELSE "DefinitionError",
                                 !.op = "PcSet",
                                 !.input = input,
                                 !.definition = made.definition,
                                 !.error = made.error])

\* the client of the constructor: it also reverses the instances it made
NextTokens ==
    \/ ConstructTokens
    \/ Reverse

SpecTokens == Init /\ [][NextTokens]_vars

\* OpSet(relation, a, b, polarity): the OpSet, or the OpSetError raised
CallOpSet ==
    \E i \in Instances, j \in Instances,
       relation \in {"set_equality", "subset_of"}, polarity \in Polarities :
        LET result == OpSet(relation, heap[i].definition,
                            heap[j].definition, polarity)
        IN  /\ Room
            /\ Stores([NoObject EXCEPT
                                 !.class = IF result.error = "none"
                                           THEN "OpSet" ELSE "OpSetError",
                                 !.op = "OpSet", !.a = i, !.b = j,
                                 !.relation = relation,
                                 !.polarity = polarity,
                                 !.Tn = result.Tn, !.TnI = result.TnI,
                                 !.flag = getAny(result),
                                 !.value = result.evaluations,
                                 !.error = result.error])

\* the client of the search
NextOpSet ==
    \/ Construct
    \/ CallOpSet

SpecOpSet == Init /\ [][NextOpSet]_vars

\* SetCatalog(rebuild, store, failsafe) as far as the loop of _rebuild:
\* _retrieve loads the file, and open() raises IOError when there is none
NewSetCatalog(rebuild, store, failsafe) ==
    /\ sc.pc \in {"none", "done", "raised"}
    /\ sc' = IF ~rebuild /\ file.exists
             THEN [ pc |-> "done", rebuild |-> rebuild, store |-> store,
                    failsafe |-> failsafe, loaded |-> TRUE, n |-> 0,
                    catalog |-> load(file.data) ]
             ELSE [ pc |-> "rebuild", rebuild |-> rebuild, store |-> store,
                    failsafe |-> failsafe, loaded |-> FALSE, n |-> 0,
                    catalog |-> EmptyCatalog ]
    /\ UNCHANGED <<heap, file>>

\* r = SetCatalog(rebuild=True, store=False)
showcatalog == NewSetCatalog(TRUE, FALSE, FALSE)

SetCatalog == \E args \in CatalogArgs : NewSetCatalog(args[1], args[2], args[3])

\* _rewrite whatever self.store
AfterLoop_rewrite(store) == "rewrite"

\* `if self.store:` after the loop of _rebuild
AfterLoop(store) == IF store THEN "rewrite" ELSE "done"

\* one pass of `for s in all_possible_pcsets()`; after the last pass
\* `if self.store` decides between _rewrite and the end of __init__
RebuildPass ==
    /\ sc.pc = "rebuild"
    /\ sc.n < AllSets
    /\ sc' = [sc EXCEPT
                 !.catalog = Catalogued(sc.catalog, all_possible_pcsets(sc.n)),
                 !.n = sc.n + 1,
                 !.pc = IF sc.n + 1 < AllSets THEN "rebuild"
                        ELSE AfterLoop(sc.store)]
    /\ UNCHANGED <<heap, file>>

\* _rewrite in the try block of _rebuild: the file is written, or open()
\* raises IOError, which is passed on unless failsafe
Rewrite ==
    /\ sc.pc = "rewrite"
    /\ \/ /\ file' = [exists |-> TRUE, data |-> dump(sc.catalog)]
          /\ sc' = [sc EXCEPT !.pc = "done"]
       \/ /\ file' = file
          /\ sc' = [sc EXCEPT !.pc = IF sc.failsafe THEN "done" ELSE "raised"]
    /\ UNCHANGED heap

\* the catalog rebuilt and not stored
NextCatalog ==
    \/ showcatalog
    \/ RebuildPass

SpecCatalog == Init /\ [][NextCatalog]_vars

\* constructions of SetCatalog one after the other, with catalog.pkl
NextPickle ==
    \/ SetCatalog
    \/ RebuildPass
    \/ Rewrite

SpecPickle == Init /\ [][NextPickle]_vars

\* the client of shift: sets of 0, 1, 3, 4, 5 and 7 elements and their
\* rotations
CallShift ==
    \E i \in Instances, n \in ShiftPlaces :
        Returns("shift", i, 0, n, 0, shift(heap[i].definition, n))

NextShift ==
    \/ Construct
    \/ ConstructRaw
    \/ CallShift

SpecShift == Init /\ [][NextShift]_vars

\* the positions of the ToneRow instances
Rows == { i \in DOMAIN heap : heap[i].class = "ToneRow" }

\* a call that returns a ToneRow or raises the error of its constructor
ReturnsRow(op, a, n, input, result) ==
    /\ Room
    /\ Stores([NoObject EXCEPT
                         !.class = IF result.error = "none"
                                   THEN "ToneRow" ELSE result.error,
                         !.op = op, !.a = a, !.n = n, !.input = input,
                         !.definition = result.definition,
                         !.error = result.error])

ConstructRow ==
    \E input \in RowDefinitions :
        ReturnsRow("ToneRow", 0, 0, input, ToneRow(input))

\* the rows the client takes the forms of: those it constructed, as the
\* tests take the forms of self.testrow
TestRows == { i \in Rows : heap[i].op = "ToneRow" }

CallP ==
    \E i \in TestRows, n \in 0..11 :
        ReturnsRow("P", i, n, <<>>, P(heap[i].definition, n))

CallR ==
    \E i \in TestRows, n \in 0..11 :
        ReturnsRow("R", i, n, <<>>, R(heap[i].definition, n))

CallToneRowI ==
    \E i \in TestRows, n \in 0..11 :
        ReturnsRow("I", i, n, <<>>, ToneRow_I(heap[i].definition, n))

CallRI ==
    \E i \in TestRows, n \in 0..11 :
        ReturnsRow("RI", i, n, <<>>, RI(heap[i].definition, n))

Equivalent ==
    \E i \in Rows, j \in Rows :
        ReturnsBool("equivalent", i, j,
                    equivalent(heap[i].definition, heap[j].definition))

NextToneRow ==
    \/ ConstructRow
    \/ CallP
    \/ CallR
    \/ CallToneRowI
    \/ CallRI
    \/ Equivalent

SpecToneRow == Init /\ [][NextToneRow]_vars

\* the client of normal() on sets with rotational symmetry
ConstructSymmetric == \E input \in SymmetricDefinitions : New(input)

NextNormal ==
    \/ ConstructSymmetric
    \/ Transpose
    \/ Normal

SpecNormal == Init /\ [][NextNormal]_vars

(***************************************************************************)
(* Properties                                                              *)
(***************************************************************************)
PitchClasses == 0..11

\* the element sequence of the operands of the call that made heap[k]
OperandA(k) == heap[heap[k].a].definition

OperandB(k) == heap[heap[k].b].definition

\* The call of op that has just returned, if any.  The heap only grows, so
\* every object of a reachable heap is the last object of the reachable heap
\* that ends with it: a property of the last call is a property of every
\* call.
Calls(op) == { k \in DOMAIN heap : k = Len(heap) /\ heap[k].op = op }

\* some Tn or TnI maps a onto b, as sets
Related(a, b) ==
    \E n \in PitchClasses :
        \/ set_equality(transpose(a, n), b)
        \/ set_equality(transpose(invert(a), n), b)

\* seq is the ascending list of the members of S
AscendingListOf(seq, S) ==
    /\ Elements(seq) = S
    /\ \A p, q \in DOMAIN seq : p < q => seq[p] < seq[q]

\* C1: two sets have the same prime form (same_prime answers true) exactly
\* when some transposition of a, or of the inversion of a, has the same
\* elements as b.
C1_SamePrimeIffRelated ==
    \A k \in Calls("same_prime") :
        heap[k].flag <=> Related(OperandA(k), OperandB(k))

\* same_prime answered true for two sets that only an inversion relates
C1_Witness ==
    \E k \in Calls("same_prime") :
        /\ heap[k].flag
        /\ Len(OperandA(k)) >= 3
        /\ \A n \in PitchClasses :
               ~set_equality(transpose(OperandA(k), n), OperandB(k))

\* C2: op_path(a, b).Tn is the ascending list of all n with a.T(n) = b as
\* sets and .TnI the ascending list of all n with a.TnI(n) = b as sets,
\* whatever the prime forms of a and b are.
C2_OpPathIsExhaustiveSearch ==
    \A k \in Calls("op_path") :
        /\ AscendingListOf(heap[k].Tn,
              { n \in PitchClasses :
                    set_equality(T(OperandA(k), n), OperandB(k)) })
        /\ AscendingListOf(heap[k].TnI,
              { n \in PitchClasses :
                    set_equality(TnI(OperandA(k), n), OperandB(k)) })

\* op_path found several transpositions and several inversions between two
\* different instances
C2_Witness ==
    \E k \in Calls("op_path") :
        /\ heap[k].a # heap[k].b
        /\ OperandA(k) # <<>>
        /\ Len(heap[k].Tn) > 1
        /\ Len(heap[k].TnI) > 1

\* C3: op_path returns both branches empty exactly when the prime forms
\* differ, and its assertion `result.any` never fails.
C3_OpPathEmptyIffPrimesDiffer ==
    \A k \in Calls("op_path") :
        /\ (heap[k].Tn = <<>> /\ heap[k].TnI = <<>>)
               <=> prime(OperandA(k)) # prime(OperandB(k))
        /\ heap[k].error # "AssertionError"

\* op_path passed the filter for two sets of at least three elements that
\* are not equal as sets
C3_Witness ==
    \E k \in Calls("op_path") :
        /\ prime(OperandA(k)) = prime(OperandB(k))
        /\ ~set_equality(OperandA(k), OperandB(k))
        /\ Len(OperandA(k)) >= 3
        /\ heap[k].flag

\* the positions of red that hold the first occurrence of their value
FirstOccurrences(red) ==
    { k \in DOMAIN red : \A j \in 1..(k - 1) : red[j] # red[k] }

\* C4: every PcSet has 0 to 12 elements, all in 0..11 and all different; the
\* constructor reduces the input values mod 12 and keeps the first
\* occurrence of each value, in the order of the input.
C4_PcSetInvariant ==
    \A k \in Instances :
        LET d == heap[k].definition
            red == [j \in DOMAIN heap[k].input |-> heap[k].input[j] % 12]
            first == FirstOccurrences(red)
        IN  /\ Len(d) \in 0..12
            /\ \A p \in DOMAIN d : d[p] \in PitchClasses
            /\ \A p, q \in DOMAIN d : p # q => d[p] # d[q]
            /\ heap[k].op = "PcSet" =>
                   /\ Len(d) = Cardinality(first)
                   /\ \A p \in DOMAIN d :
                          \E j \in first :
                              /\ Cardinality({ i \in first : i <= j }) = p
                              /\ d[p] = red[j]

\* an instance made from an input with a duplicate and an out-of-range
\* value, and an instance made by a method from it
C4_Witness ==
    \E k \in Instances, r \in Instances :
        /\ heap[k].op = "PcSet"
        /\ Len(heap[k].input) > Len(heap[k].definition)
        /\ \E j \in DOMAIN heap[k].input :
               heap[k].input[j] \notin PitchClasses
        /\ heap[r].a = k
        /\ heap[r].op = "complement"

Span(s) == (s[Len(s)] - s[1]) % 12

\* C6: for a set of at least two elements, normal() is a rotation of the
\* sorted set whose zeroed form has the smallest binary value among the
\* rotations, hence the smallest span; a shorter set is returned as it is.
C6_NormalIsMinimalRotation ==
    \A k \in Calls("normal") :
        LET x == OperandA(k)
            nf == heap[k].definition
            Rotations == { shift(sort(x), r) : r \in 0..(Len(x) - 1) }
        IN  IF Len(x) < 2 THEN nf = x
            ELSE /\ nf \in Rotations
                 /\ \A rot \in Rotations :
                        /\ binaryvalue(zero(nf)) <= binaryvalue(zero(rot))
                        /\ Span(nf) <= Span(rot)

\* normal() chose a rotation that is neither the sorted set nor the last
\* rotation
C6_Witness ==
    \E k \in Calls("normal") :
        /\ Len(OperandA(k)) >= 3
        /\ heap[k].definition # sort(OperandA(k))
        /\ heap[k].definition
               # shift(sort(OperandA(k)), Len(OperandA(k)) - 1)

\* C7: the reduced form of a transposition of x, by any integer, is the
\* reduced form of x.
C7_ReducedTransposeInvariant ==
    \A k \in Calls("reduced") :
        heap[heap[k].a].op = "transpose" =>
            heap[k].definition = reduced(OperandA(heap[k].a))

\* the reduced form of a set transposed by a negative amount was taken
C7_Witness ==
    \E k \in Calls("reduced") :
        /\ heap[heap[k].a].op = "transpose"
        /\ heap[heap[k].a].n < 0
        /\ Len(OperandA(k)) >= 3
        /\ OperandA(k) # OperandA(heap[k].a)

\* C8: the prime form of a prime form is that prime form.
C8_PrimeIdempotent ==
    \A k \in Calls("prime") :
        /\ prime(heap[k].definition) = heap[k].definition
        /\ heap[heap[k].a].op = "prime" =>
               heap[k].definition = OperandA(k)

\* the prime form of the prime form of a set that is not in prime form
C8_Witness ==
    \E k \in Calls("prime") :
        /\ heap[heap[k].a].op = "prime"
        /\ Len(OperandA(k)) >= 3
        /\ OperandA(heap[k].a) # OperandA(k)
        /\ reduced(OperandA(heap[k].a)) # OperandA(k)

\* C9: invert() maps the element at each position e to (12 - e) mod 12,
\* keeping length and order, and inverting twice gives the set back.
C9_InvertInvolution ==
    \A k \in Calls("invert") :
        /\ Len(heap[k].definition) = Len(OperandA(k))
        /\ \A p \in DOMAIN OperandA(k) :
               heap[k].definition[p] = (12 - OperandA(k)[p]) % 12
        /\ heap[heap[k].a].op = "invert" =>
               heap[k].definition = OperandA(heap[k].a)

\* a set with 0 and other elements was inverted twice
C9_Witness ==
    \E k \in Calls("invert") :
        /\ heap[heap[k].a].op = "invert"
        /\ Len(OperandA(k)) >= 3
        /\ 0 \in Elements(OperandA(k))
        /\ OperandA(k) # heap[k].definition

\* C10: transpose(n) maps the element at each position e to (e + n) mod 12,
\* keeping length and order, and transposing by m and then by n is
\* transposing by (m + n) mod 12.
C10_TransposeGroupLaw ==
    \A k \in Calls("transpose") :
        /\ Len(heap[k].definition) = Len(OperandA(k))
        /\ \A p \in DOMAIN OperandA(k) :
               heap[k].definition[p] = (OperandA(k)[p] + heap[k].n) % 12
        /\ heap[heap[k].a].op = "transpose" =>
               heap[k].definition =
                   transpose(OperandA(heap[k].a),
                             (heap[heap[k].a].n + heap[k].n) % 12)

\* a set was transposed by a negative and then by an out-of-range amount
C10_Witness ==
    \E k \in Calls("transpose") :
        /\ heap[heap[k].a].op = "transpose"
        /\ heap[heap[k].a].n < 0
        /\ heap[k].n > 11
        /\ Len(OperandA(k)) >= 3
        /\ heap[k].definition # OperandA(heap[k].a)

\* C11: transpose(n) of a non-integer n returns what transpose returns for n
\* truncated toward zero: 3.6 transposes as 3 and -3.6 as -3.
C11_TransposeTruncatesTowardZero ==
    \A k \in Calls("transpose_float") :
        heap[k].definition = transpose(OperandA(k), int(heap[k].n))

\* the calls x.complement().complement(): k is the second call
ComplementTwice ==
    { k \in Calls("complement") : heap[heap[k].a].op = "complement" }

\* the x of the call x.complement().complement() that returned heap[k]
ComplementTwiceOf(k) == heap[heap[heap[k].a].a].definition

\* C12 (as stated): the complement of the complement of x is x, element
\* sequence for element sequence.
C12_ComplementInvolution ==
    \A k \in ComplementTwice : heap[k].definition = ComplementTwiceOf(k)

\* C12 (amended): the complement of the complement of x has exactly the
\* elements of x, in ascending order: it is the element sequence of x.sort(),
\* and it is the element sequence of x exactly when x is ascending.
C12_ComplementTwiceSorts ==
    \A k \in ComplementTwice :
        /\ AscendingListOf(heap[k].definition, Elements(ComplementTwiceOf(k)))
        /\ heap[k].definition = sort(ComplementTwiceOf(k))
        /\ (heap[k].definition = ComplementTwiceOf(k))
               <=> (ComplementTwiceOf(k) = sort(ComplementTwiceOf(k)))

\* x = [9, 1, 4, 7] is not ascending and its double complement is not x
C12_Witness ==
    \E k \in ComplementTwice :
        /\ Len(ComplementTwiceOf(k)) >= 3
        /\ heap[k].definition # ComplementTwiceOf(k)

\* the n of range(12) for which the members of inner are members of outer
\* transposed by n
FitsTn(outer, inner) ==
    { n \in PitchClasses :
        Elements(inner) \subseteq Elements(transpose(outer, n)) }

\* the same for outer inverted and then transposed by n
FitsTnI(outer, inner) ==
    { n \in PitchClasses :
        Elements(inner) \subseteq Elements(transpose(invert(outer), n)) }

\* the n of range(12) for which inner transposed by n lies in outer
FitsInTn(outer, inner) ==
    { n \in PitchClasses :
        Elements(transpose(inner, n)) \subseteq Elements(outer) }

FitsInTnI(outer, inner) ==
    { n \in PitchClasses :
        Elements(transpose(invert(inner), n)) \subseteq Elements(outer) }

\* C13: harmonize(a, b) lists, in ascending order, exactly the n for which b
\* is a subset of a.T(n) (Tn) and of a.TnI(n) (TnI); fit_in(a, b) lists
\* exactly the n for which b.T(n), b.TnI(n) is a subset of a; the early
\* return for len(a) < len(b) loses no match; prime_subset_of(a, b) is true
\* exactly when fit_in(a, b) has a match.
C13_SubsetSearchIsExhaustive ==
    /\ \A k \in Calls("harmonize") :
           /\ AscendingListOf(heap[k].Tn, FitsTn(OperandA(k), OperandB(k)))
           /\ AscendingListOf(heap[k].TnI, FitsTnI(OperandA(k), OperandB(k)))
    /\ \A k \in Calls("fit_in") :
           /\ AscendingListOf(heap[k].Tn, FitsInTn(OperandA(k), OperandB(k)))
           /\ AscendingListOf(heap[k].TnI,
                              FitsInTnI(OperandA(k), OperandB(k)))
    /\ \A k \in Calls("prime_subset_of") :
           heap[k].flag <=>
               (FitsInTn(OperandA(k), OperandB(k))
                    \cup FitsInTnI(OperandA(k), OperandB(k))) # {}

\* a chord harmonized by the scale, with matches in both branches
C13_Witness ==
    \E k \in Calls("harmonize") :
        /\ Len(OperandA(k)) > Len(OperandB(k))
        /\ Len(OperandB(k)) >= 3
        /\ Len(heap[k].Tn) >= 2
        /\ Len(heap[k].TnI) >= 2
        /\ Len(heap[k].Tn) < 12

\* C14: the entry n of x.cvec() is the number of pitch classes that x and
\* x.TnI(n) have in common; the vector has 12 entries, all 0 for the empty
\* set.
C14_CvecCountsCommonTones ==
    \A k \in Calls("cvec") :
        /\ Len(heap[k].vector) = 12
        /\ \A n \in PitchClasses :
               heap[k].vector[n + 1] =
                   Cardinality(Elements(OperandA(k))
                                   \cap Elements(TnI(OperandA(k), n)))
        /\ OperandA(k) = <<>> =>
               \A n \in PitchClasses : heap[k].vector[n + 1] = 0

\* the cvec of a transposed chord has a partial overlap and an empty one
C14_Witness ==
    \E k \in Calls("cvec") :
        /\ heap[heap[k].a].op = "transpose"
        /\ Len(OperandA(k)) >= 3
        /\ \E n \in PitchClasses :
               /\ heap[k].vector[n + 1] > 0
               /\ heap[k].vector[n + 1] < Len(OperandA(k))
        /\ \E n \in PitchClasses : heap[k].vector[n + 1] = 0

\* C15: symmetry(a) is the number of n of 0..11 for which a.TnI(n) has the
\* elements of a, which is the length of op_path(a, a).TnI; it is 12 for the
\* empty set.
C15_SymmetryCountsInversionAxes ==
    \A k \in Calls("symmetry") :
        /\ heap[k].value =
               Cardinality({ n \in PitchClasses :
                               Elements(transpose(invert(OperandA(k)), n))
                                   = Elements(OperandA(k)) })
        /\ heap[k].value = Len(op_path(OperandA(k), OperandA(k)).TnI)
        /\ OperandA(k) = <<>> => heap[k].value = 12

\* the augmented triad has three axes
C15_Witness ==
    \E k \in Calls("symmetry") :
        /\ Len(OperandA(k)) = 3
        /\ heap[k].value = 3

\* the unordered pairs of members of S of interval class c
PairsOfClass(S, c) ==
    { pair \in S \X S :
        /\ pair[1] < pair[2]
        /\ \/ (pair[2] - pair[1]) = c
           \/ 12 - (pair[2] - pair[1]) = c }

\* C16: the entry k - 1 of x.ivec() is the number of unordered pairs of
\* distinct members of x of interval class k, a tritone pair counted once;
\* the six entries sum to len(x) * (len(x) - 1) / 2; the order of the elements
\* of x does not matter.
C16_IvecCountsIntervalClasses ==
    \A k \in Calls("ivec") :
        /\ Len(heap[k].vector) = 6
        /\ \A c \in 1..6 :
               heap[k].vector[c] =
                   Cardinality(PairsOfClass(Elements(OperandA(k)), c))
        /\ 2 * (heap[k].vector[1] + heap[k].vector[2] + heap[k].vector[3]
                  + heap[k].vector[4] + heap[k].vector[5] + heap[k].vector[6])
               = Len(OperandA(k)) * (Len(OperandA(k)) - 1)
        /\ heap[heap[k].a].op = "reverse" =>
               heap[k].vector = ivec(heap[heap[heap[k].a].a].definition)

\* the ivec of the scale reversed: its tritone is counted once
C16_Witness ==
    \E k \in Calls("ivec") :
        /\ heap[heap[k].a].op = "reverse"
        /\ Len(OperandA(k)) = 7
        /\ OperandA(k) # sort(OperandA(k))
        /\ heap[k].vector[6] = 1

\* C17: whenever Zpair(a, b) is true, a and b have the same number of
\* elements.
C17_ZpairSameCardinality ==
    \A k \in Calls("Zpair") :
        heap[k].flag => Len(OperandA(k)) = Len(OperandB(k))

\* the positions at which the interval vectors of a and b differ
DifferingPositions(a, b) == { p \in 1..6 : ivec(a)[p] # ivec(b)[p] }

TwoMisfitsNotInterchanged(a, b) ==
    /\ Cardinality(DifferingPositions(a, b)) = 2
    /\ ~ \E p, q \in DifferingPositions(a, b) :
             /\ p # q
             /\ ivec(a)[p] = ivec(b)[q]
             /\ ivec(a)[q] = ivec(b)[p]

C20_IsComplementIffComplement ==
    \A k \in Calls("is_complement") :
        heap[k].flag <=>
            /\ Elements(OperandB(k)) = PitchClasses \ Elements(OperandA(k))
            /\ set_equality(OperandB(k), complement(OperandA(k)))

\* C21: is_prime_complement(a, b) is true exactly when b, or b.T(n) or
\* b.TnI(n) for some n of 0..11, has exactly the pitch classes that a does not
\* contain.
C21_PrimeComplementIffRelatedToComplement ==
    \A k \in Calls("is_prime_complement") :
        heap[k].flag <=>
            \E n \in PitchClasses :
                \/ Elements(transpose(OperandB(k), n))
                       = PitchClasses \ Elements(OperandA(k))
                \/ Elements(transpose(invert(OperandB(k)), n))
                       = PitchClasses \ Elements(OperandA(k))

\* the scale and the black keys under T(3)I: a prime complement that is not
\* the complement
C21_Witness ==
    \E k \in Calls("is_prime_complement") :
        /\ heap[k].flag
        /\ Len(OperandB(k)) = 5
        /\ Elements(OperandB(k)) # PitchClasses \ Elements(OperandA(k))

\* the characters a specification string may hold
LegalCharacters ==
    {"0", "1", "2", "3", "4", "5", "6", "7", "8", "9", "A", "B"}

\* C22: PcSet of a string succeeds exactly when every character is one of
\* '0'-'9', 'A', 'B' (A is 10 and B is 11); a string with another character,
\* a list with such a token and a non-iterable raise a DefinitionError at
\* construction and no PcSet is made.
C22_ConstructionSucceedsIffLegal ==
    \A k \in Calls("PcSet") :
        LET items == heap[k].input.items
            legal == \A p \in DOMAIN items :
                         items[p].type = "str" => items[p].ch \in LegalCharacters
        IN  /\ heap[k].class \in {"PcSet", "DefinitionError"}
            /\ heap[k].input.type = "str" => (heap[k].class = "PcSet" <=> legal)
            /\ (~legal \/ heap[k].input.type = "int") =>
                   /\ heap[k].class = "DefinitionError"
                   /\ heap[k].error \in {"IllegalCharacter", "NonIterableDef"}
                   /\ k \notin Instances
            /\ heap[k].class = "PcSet" =>
                   \A p \in DOMAIN items :
                       /\ items[p].ch = "A" => Contains(heap[k].definition, 10)
                       /\ items[p].ch = "B" => Contains(heap[k].definition, 11)

PageSizes(catalog) == [k \in DOMAIN catalog |-> Len(catalog[k])]

\* C24: the catalog rebuilt from the prime forms of all 4096 subsets has 224
\* prime sets, [1, 1, 6, 12, 29, 38, 50, 38, 29, 12, 6, 1, 1] on the pages 0
\* to 12; every entry of page n has length n and no two entries are equal as
\* sequences.
C24_CatalogOf224Primes ==
    /\ sc.pc = "done" =>
           /\ PageSizes(sc.catalog)
                  = <<1, 1, 6, 12, 29, 38, 50, 38, 29, 12, 6, 1, 1>>
           /\ Len(Concat(sc.catalog)) = 224
    /\ \A k \in DOMAIN sc.catalog :
           /\ \A e \in DOMAIN sc.catalog[k] : Len(sc.catalog[k][e]) = k - 1
           /\ \A e \in DOMAIN sc.catalog[k] :
                  \A f \in DOMAIN sc.catalog[k] :
                      sc.catalog[k][e] = sc.catalog[k][f] => e = f

\* the rebuild has taken all 4096 sets
C24_Witness ==
    /\ sc.pc = "done"
    /\ sc.n = AllSets
    /\ ~sc.loaded
    /\ Len(sc.catalog[7]) = 50

\* a construction with the default arguments
DefaultArgs(c) == ~c.rebuild /\ c.store /\ ~c.failsafe

\* C27: catalog.pkl is written only by a construction that rebuilt the
\* catalog (rebuild=True, or no file could be opened for reading) with
\* store=True; a construction that loads the file does not write it and one
\* with store=False never writes; after a default construction that found no
\* file, the next default construction loads the stored catalog, with the
\* same 13 pages.
C27_FileWrittenOnlyByStoringRebuild ==
    /\ [][ /\ file' # file =>
                 /\ sc.pc = "rewrite"
                 /\ ~sc.loaded
                 /\ sc.store
                 /\ sc.rebuild \/ ~file.exists
           /\ sc'.loaded => file' = file
           /\ ~sc.store => file' = file
           /\ ( /\ sc.pc = "done" /\ DefaultArgs(sc) /\ ~sc.loaded
                /\ sc' # sc /\ DefaultArgs(sc') ) =>
                    /\ sc'.pc = "done"
                    /\ sc'.loaded
                    /\ Len(sc'.catalog) = 13
                    /\ sc'.catalog = sc.catalog ]_vars
    /\ [](sc.loaded => sc.pc = "done")
    /\ [](sc.pc = "rewrite" => sc.store /\ sc.n = AllSets)

\* a default construction has loaded the catalog that an earlier
\* construction stored
C27_Witness ==
    /\ sc.pc = "done"
    /\ sc.loaded
    /\ DefaultArgs(sc)
    /\ file.exists
    /\ PageSizes(sc.catalog) = <<1, 1, 6, 12, 29, 38, 50, 38, 29, 12, 6, 1, 1>>

\* C25: op_path(b, a).TnI is op_path(a, b).TnI, and op_path(b, a).Tn is the
\* ascending list of the values (12 - n) mod 12 for n in op_path(a, b).Tn.
C25_OpPathOfSwappedOperands ==
    \A k \in Calls("op_path") :
        LET back == op_path(OperandB(k), OperandA(k))
        IN  /\ back.TnI = heap[k].TnI
            /\ AscendingListOf(back.Tn,
                   { (12 - n) % 12 : n \in Elements(heap[k].Tn) })
            /\ back.error = heap[k].error

\* op_path between two different sets found an inversion and a
\* transposition that is not its own inverse
C25_Witness ==
    \E k \in Calls("op_path") :
        /\ ~set_equality(OperandA(k), OperandB(k))
        /\ heap[k].TnI # <<>>
        /\ \E n \in Elements(heap[k].Tn) : n \notin {0, 6}

\* C26: x.shift(n) on a set of length L has at index i the element of x at
\* index (i - n) mod L: shift(1) moves the last element to the front,
\* shift(-1) the first to the end, shift(L) equals x, and a set of length 0
\* or 1 is returned unchanged.
C26_ShiftRotatesUp ==
    \A k \in Calls("shift") :
        LET x == OperandA(k)
            L == Len(x)
            n == heap[k].n
            result == heap[k].definition
        IN  /\ Len(result) = L
            /\ \A i \in 0..(L - 1) : result[i + 1] = x[((i - n) % L) + 1]
            /\ (n = 1 /\ L > 0) =>
                   result = <<x[L]>> \o SubSeq(x, 1, L - 1)
            /\ (n = -1 /\ L > 0) =>
                   result = SubSeq(x, 2, L) \o <<x[1]>>
            /\ n = L => result = x
            /\ L <= 1 => result = x

\* a set of at least three elements was shifted down and is not the set it
\* was
C26_Witness ==
    \E k \in Calls("shift") :
        /\ Len(OperandA(k)) >= 3
        /\ heap[k].n < 0
        /\ heap[k].definition # OperandA(k)

\* the operations P, R, I and RI of ToneRow, by the name of the call
RowForms == {"P", "R", "I", "RI"}

\* C28: for every ToneRow a and n in 0..11, a.P(n), a.R(n), a.I(n) and
\* a.RI(n) are ToneRows whose first element is n, and equivalent(a, f(n))
\* is true for each of them.
C28_RowFormsStartAtNAndAreEquivalent ==
    /\ \A k \in DOMAIN heap :
           heap[k].op \in RowForms =>
               /\ heap[k].class = "ToneRow"
               /\ Len(heap[k].definition) = 12
               /\ heap[k].definition[1] = heap[k].n
    /\ \A k \in Calls("equivalent") :
           ( /\ heap[heap[k].b].op \in RowForms
             /\ heap[heap[k].b].a = heap[k].a ) => heap[k].flag

\* equivalent(a, a.RI(n)) was called for a row a and returned True, and
\* equivalent does not return True for every pair of rows
C28_Witness ==
    /\ \E k \in Calls("equivalent") :
           /\ heap[heap[k].b].op = "RI"
           /\ heap[heap[k].b].a = heap[k].a
           /\ heap[heap[k].b].n = 5
           /\ heap[k].flag
    /\ \E a \in RowDefinitions, b \in RowDefinitions :
           /\ Len(a) = 12
           /\ Len(b) = 12
           /\ ~equivalent(a, b)

\* the encoded value of the rotation shift(r) of the sorted set, compared
\* from its first element on zero
RotationValue(x, r) == binaryvalue(zero(shift(sort(x), r)))

\* the r of range(len(x)) whose rotation has the smallest encoded value
MinimalRotations(x) ==
    { r \in 0..(Len(x) - 1) :
          \A q \in 0..(Len(x) - 1) : RotationValue(x, r) <= RotationValue(x, q) }

\* the first minimal rotation in the order shift(0), shift(1), ...
FirstMinimal(x) ==
    CHOOSE r \in MinimalRotations(x) : \A q \in MinimalRotations(x) : r <= q

\* C29 as stated: when several rotations of the sorted set tie for the
\* smallest encoded value, normal() returns the first minimal rotation in
\* the order shift(0), shift(1), ..., shift(len - 1).
C29_TieGoesToFirstMinimalRotation ==
    \A k \in Calls("normal") :
        LET x == OperandA(k)
        IN  (Len(x) >= 2 /\ Cardinality(MinimalRotations(x)) > 1) =>
                heap[k].definition = shift(sort(x), FirstMinimal(x))

\* C29, amended: when several rotations tie for the smallest encoded value,
\* normal() returns the last rotation shift(len - 1) if it is one of them,
\* and otherwise the first minimal rotation in the order shift(0),
\* shift(1), ..., shift(len - 2).
C29_TieGoesToLastRotationIfMinimal ==
    \A k \in Calls("normal") :
        LET x == OperandA(k)
        IN  (Len(x) >= 2 /\ Cardinality(MinimalRotations(x)) > 1) =>
                heap[k].definition =
                    IF (Len(x) - 1) \in MinimalRotations(x)
                    THEN shift(sort(x), Len(x) - 1)
                    ELSE shift(sort(x), FirstMinimal(x))

\* normal() of a set of three elements whose three rotations tie returned
\* the last rotation, which is not the first
C29_Witness ==
    \E k \in Calls("normal") :
        /\ Cardinality(MinimalRotations(OperandA(k))) = 3
        /\ heap[k].definition = shift(sort(OperandA(k)), 2)
        /\ heap[k].definition # shift(sort(OperandA(k)), 0)

\* the result is the mirror image of the other search: the same TnI, the
\* Tn the ascending list of (12 - n) mod 12, the same `any`
MirrorOf(k, other) ==
    /\ heap[k].TnI = other.TnI
    /\ AscendingListOf(heap[k].Tn,
           { (12 - n) % 12 : n \in Elements(other.Tn) })
    /\ heap[k].flag = getAny(other)

\* C30: harmonize(a, b).TnI is fit_in(a, b).TnI, harmonize(a, b).Tn is the
\* ascending list of (12 - n) mod 12 for n in fit_in(a, b).Tn, and
\* harmonize(a, b).any is fit_in(a, b).any.
C30_HarmonizeMirrorsFitIn ==
    /\ \A k \in Calls("harmonize") :
           MirrorOf(k, fit_in(OperandA(k), OperandB(k)))
    /\ \A k \in Calls("fit_in") :
           MirrorOf(k, harmonize(OperandA(k), OperandB(k)))

\* harmonize found an inversion and a transposition that is not its own
\* inverse for a set b smaller than a
C30_Witness ==
    \E k \in Calls("harmonize") :
        /\ Len(OperandB(k)) > 0
        /\ Len(OperandB(k)) < Len(OperandA(k))
        /\ heap[k].TnI # <<>>
        /\ \E n \in Elements(heap[k].Tn) : n \notin {0, 6}

=============================================================================
